---- MODULE Spec2Model ----
(***************************************************************************)
(* Client registry of src/app.py: the clients / client_pictures tables,    *)
(* the S3 bucket, and the request handlers get_upload_url, create_client,  *)
(* get_clients, get_client and delete_client, run by concurrent gunicorn   *)
(* workers.  Every handler runs in its own SQLAlchemy session, i.e. its    *)
(* own MySQL (InnoDB) transaction: rows written by flush() stay private to *)
(* the transaction until commit(), and an exception leaving the handler    *)
(* rolls the transaction back.                                             *)
(***************************************************************************)
EXTENDS Integers, Sequences, FiniteSets, TLC

\* ------------------------------------------------------------------ bounds
NumProcs  == 2      \* concurrent request handlers (workers x threads)
MaxCreates == 2     \* INSERTs into clients attempted in one behaviour
MaxPics   == 2      \* picture descriptors in one create request
MaxTime   == 2      \* latest reading of the clock (seconds) in the listing specification
MaxGrants == 2      \* upload-url requests in one behaviour
MaxListed == 3      \* clients registered in the listing specification

Procs == 1..NumProcs

\* --------------------------------------------------------- values and inputs
Absent == "<absent>"     \* a JSON field that is missing: data.get(...) is None
NoKey  == << >>          \* pic.get('key') of a descriptor without 'key'

ClientIds == {"c1", "c2"}
FileNames == {"a.png", "b.png"}

\* a key formatter that leaves the uuid out
s3_key_no_token(client_id, token, file_name) ==
    <<"clients/", client_id, "/", 0, "_", file_name>>

\* src/app.py:117  f"clients/{client_id}/{uuid.uuid4()}_{file_name}"
s3_key(client_id, token, file_name) ==
    <<"clients/", client_id, "/", token, "_", file_name>>

\* Object keys the callers of create_client hold (obtained from earlier grants).
PicKeys == {s3_key("c1", 101, "a.png"), s3_key("c2", 102, "a.png")}

RECURSIVE SeqsUpTo(_, _)
SeqsUpTo(S, n) ==
    IF n = 0 THEN {<< >>}
    ELSE LET shorter == SeqsUpTo(S, n - 1)
         IN  shorter \cup {Append(s, x) : s \in {t \in shorter : Len(t) = n - 1}, x \in S}

\* the 'pictures' arrays of the request bodies: up to MaxPics descriptors, the
\* last of which may lack its 'key' (what follows a descriptor without key is
\* never inserted)
PictureLists ==
    SeqsUpTo(PicKeys, MaxPics) \cup {Append(s, NoKey) : s \in SeqsUpTo(PicKeys, MaxPics - 1)}

\* request bodies of POST /api/clients; a body without 'clientId' is refused
\* before its pictures are looked at, so one such body stands for all
CreateInputs ==
    [clientId : ClientIds, pictures : PictureLists] \cup {[clientId |-> Absent, pictures |-> << >>]}

NoData   == [clientId |-> Absent, pictures |-> << >>]
NoClient == [id |-> 0, client_id |-> Absent, created_at |-> 0]

\* outcomes of one boto3 call: success, a botocore ClientError (an error
\* response of the service), or any other botocore exception (for instance
\* EndpointConnectionError, which is not a ClientError)
S3Outcomes == {"ok", "ClientError", "BotoCoreError"}

VARIABLES
    clients,        \* committed rows of table clients
    pictures,       \* committed rows of table client_pictures
    nextClientId,   \* AUTO_INCREMENT of clients.id
    nextPictureId,  \* AUTO_INCREMENT of client_pictures.id
    objects,        \* keys of the objects in the S3 bucket
    now,            \* datetime.utcnow(), in seconds
    nextToken,      \* source of uuid.uuid4()
    pc,             \* per handler: where it stands
    data,           \* per handler: request body of create_client
    client,         \* per handler: the Client object of its session
    pics,           \* per handler: client.pictures loaded by delete_client
    idx,            \* per handler: position of the loop of delete_client
    resp,           \* the response sent last
    issued,         \* history: keys returned by get_upload_url, in order
    submitted,      \* history: surrogate id -> keys submitted by its create call
    deleted,        \* history: client rows whose delete_client answered 200
    aborted         \* history: surrogate ids flushed by a create call that failed

vars == <<clients, pictures, nextClientId, nextPictureId, objects, now, nextToken,
          pc, data, client, pics, idx, resp, issued, submitted, deleted, aborted>>

db      == <<clients, pictures, nextClientId, nextPictureId>>
session == <<data, client, pics, idx>>
history == <<issued, submitted, deleted, aborted>>

NoResp == [op |-> "none", status |-> 0, error |-> "", arg |-> Absent,
           id |-> 0, key |-> NoKey, body |-> << >>]

Response(op, status, error, arg, id, key, body) ==
    [op |-> op, status |-> status, error |-> error, arg |-> arg,
     id |-> id, key |-> key, body |-> body]

Init ==
    /\ clients = {}
    /\ pictures = {}
    /\ nextClientId = 1
    /\ nextPictureId = 1
    /\ objects = {}
    /\ now = 0
    /\ nextToken = 1
    /\ pc = [p \in Procs |-> "idle"]
    /\ data = [p \in Procs |-> NoData]
    /\ client = [p \in Procs |-> NoClient]
    /\ pics = [p \in Procs |-> << >>]
    /\ idx = [p \in Procs |-> 0]
    /\ resp = NoResp
    /\ issued = << >>
    /\ submitted = << >>
    /\ deleted = {}
    /\ aborted = {}

\* ------------------------------------------------------------------ helpers
\* Client.query.filter_by(client_id=...) on the rows a new read sees (the
\* committed ones; InnoDB never shows another transaction's uncommitted rows)
ClientsByClientId(client_id) == {c \in clients : c.client_id = client_id}

\* the picture rows of relationship Client.pictures (client_pictures.client_id
\* = clients.id), read in the same snapshot as the client row
PicturesOf(c) == {x \in pictures : x.client_id = c.id}

\* rows of client_pictures in primary-key order
RECURSIVE ById(_)
ById(S) ==
    IF S = {} THEN << >>
    ELSE LET first == CHOOSE x \in S : \A y \in S : x.id <= y.id
         IN  <<first>> \o ById(S \ {first})

\* Client.to_dict with the nested ClientPicture.to_dict (s3_key of each row)
to_dict(c) ==
    [id |-> c.id, client_id |-> c.client_id, created_at |-> c.created_at,
     pictures |-> [i \in 1..Len(ById(PicturesOf(c))) |-> ById(PicturesOf(c))[i].s3_key]]

\* a clients table without the unique index on client_id
NoUniqueIndex(client_id) == FALSE

\* clients.client_id is unique=True: an INSERT of a value a committed row holds
\* is rejected with a duplicate-key IntegrityError
UniqueViolation(client_id) == ClientsByClientId(client_id) # {}

\* an INSERT whose unique key another transaction has inserted but not yet
\* committed waits for that transaction to end
InsertWaits(p, client_id) ==
    \E q \in Procs \ {p} : pc[q] = "commit" /\ client[q].client_id = client_id

\* a loop that stops after the first descriptor
FirstPictureOnly(surrogate, keys, firstId) ==
    {[id |-> firstId + i - 1, client_id |-> surrogate, s3_key |-> keys[i]] :
        i \in {j \in 1..Len(keys) : j = 1}}

\* the ClientPicture rows of the loop of create_client, ids in insertion order
NewPictures(surrogate, keys, firstId) ==
    {[id |-> firstId + i - 1, client_id |-> surrogate, s3_key |-> keys[i]] : i \in 1..Len(keys)}

\* ORDER BY created_at (ascending)
OldestFirst(S) ==
    {s \in [1..Cardinality(S) -> S] :
        /\ \A i, j \in 1..Cardinality(S) : i # j => s[i] # s[j]
        /\ \A i, j \in 1..Cardinality(S) : i < j => s[i].created_at <= s[j].created_at}

\* ORDER BY created_at DESC: the orders the database may return (ties in any order)
Orderings(S) ==
    {s \in [1..Cardinality(S) -> S] :
        /\ \A i, j \in 1..Cardinality(S) : i # j => s[i] # s[j]
        /\ \A i, j \in 1..Cardinality(S) : i < j => s[i].created_at >= s[j].created_at}

Answer(r) == resp' = r

\* the two IntegrityErrors of MySQL the handlers can run into
Duplicate == "IntegrityError: Duplicate entry"
NotNull   == "IntegrityError: Column cannot be null"

\* --------------------------------------------------------------- get_upload_url
\* POST /api/get-upload-url.  generate_presigned_url signs locally: it sends
\* nothing to the bucket.
get_upload_url(p, fileName, clientId, outcome) ==
    /\ pc[p] = "idle"
    /\ LET file_name == IF fileName = Absent THEN "file" ELSE fileName
           client_id == IF clientId = Absent THEN "unknown" ELSE clientId
           key       == s3_key(client_id, nextToken, file_name)
       IN  /\ nextToken' = nextToken + 1
           /\ IF outcome = "ok"
              THEN /\ Answer(Response("upload-url", 200, "", clientId, 0, key, <<fileName>>))
                   /\ issued' = Append(issued, key)
              ELSE /\ Answer(Response("upload-url", 500, outcome, clientId, 0, NoKey, <<fileName>>))
                   /\ issued' = issued
    /\ UNCHANGED <<db, objects, now, pc, session, submitted, deleted, aborted>>

\* the browser PUTs a file to a presigned URL
Upload(key) ==
    /\ key \notin objects
    /\ objects' = objects \cup {key}
    /\ UNCHANGED <<db, now, nextToken, pc, session, resp, history>>

\* ---------------------------------------------------------------- create_client
\* create_client without the duplicate check of line 140
create_client_unchecked(p, d) ==
    /\ pc[p] = "idle"
    /\ pc' = [pc EXCEPT ![p] = "flush"]
    /\ data' = [data EXCEPT ![p] = d]
    /\ UNCHANGED <<resp, db, objects, now, nextToken, client, pics, idx, history>>

\* lines 137-141: the duplicate check, the first read of the transaction
create_client(p, d) ==
    /\ pc[p] = "idle"
    /\ IF ClientsByClientId(d.clientId) # {}
       THEN /\ Answer(Response("create", 409, "Client ID already exists",
                                  d.clientId, 0, NoKey, << >>))
            /\ UNCHANGED <<pc, data>>
       ELSE /\ pc' = [pc EXCEPT ![p] = "flush"]
            /\ data' = [data EXCEPT ![p] = d]
            /\ UNCHANGED resp
    /\ UNCHANGED <<db, objects, now, nextToken, client, pics, idx, history>>

\* a flush that commits the client row at once (db.session.commit() in place of
\* db.session.flush())
create_client_flush_visible(p, t) ==
    /\ pc[p] = "flush"
    /\ data[p].clientId # Absent
    /\ ClientsByClientId(data[p].clientId) = {}
    /\ now' = t
    /\ client' = [client EXCEPT ![p] =
           [id |-> nextClientId, client_id |-> data[p].clientId, created_at |-> t]]
    /\ clients' = clients \cup {[id |-> nextClientId, client_id |-> data[p].clientId, created_at |-> t]}
    /\ nextClientId' = nextClientId + 1
    /\ pc' = [pc EXCEPT ![p] = "commit"]
    /\ UNCHANGED <<resp, data, pictures, nextPictureId, objects, nextToken, pics, idx, history>>

\* lines 143-160: db.session.add(client); db.session.flush()
create_client_flush(p, t) ==
    /\ pc[p] = "flush"
    /\ ~InsertWaits(p, data[p].clientId)
    /\ IF data[p].clientId = Absent
       THEN \* client_id is nullable=False: the INSERT is refused before a row is written
            /\ Answer(Response("create", 500, NotNull, Absent, 0, NoKey, << >>))
            /\ pc' = [pc EXCEPT ![p] = "idle"]
            /\ data' = [data EXCEPT ![p] = NoData]
            /\ UNCHANGED <<nextClientId, client, now>>
       ELSE IF UniqueViolation(data[p].clientId)
       THEN \* duplicate key: the INSERT fails, the id it drew is not given back
            /\ Answer(Response("create", 500, Duplicate, data[p].clientId, 0, NoKey, << >>))
            /\ pc' = [pc EXCEPT ![p] = "idle"]
            /\ data' = [data EXCEPT ![p] = NoData]
            /\ nextClientId' = nextClientId + 1
            /\ UNCHANGED <<client, now>>
       ELSE /\ now' = t
            /\ client' = [client EXCEPT ![p] =
                   [id |-> nextClientId, client_id |-> data[p].clientId, created_at |-> t]]
            /\ nextClientId' = nextClientId + 1
            /\ pc' = [pc EXCEPT ![p] = "commit"]
            /\ UNCHANGED <<resp, data>>
    /\ UNCHANGED <<clients, pictures, nextPictureId, objects, nextToken, pics, idx, history>>

\* lines 162-173: one ClientPicture per descriptor, then db.session.commit()
create_client_commit(p) ==
    /\ pc[p] = "commit"
    /\ IF \E i \in 1..Len(data[p].pictures) : data[p].pictures[i] = NoKey
       THEN \* s3_key is nullable=False: the flush inside commit() raises, the
            \* transaction (client row included) is rolled back
            /\ Answer(Response("create", 500, NotNull, data[p].clientId, 0, NoKey, << >>))
            /\ aborted' = aborted \cup {client[p].id}
            /\ UNCHANGED <<clients, pictures, nextPictureId, submitted>>
       ELSE /\ clients' = clients \cup {client[p]}
            /\ pictures' = pictures \cup NewPictures(client[p].id, data[p].pictures, nextPictureId)
            /\ nextPictureId' = nextPictureId + Len(data[p].pictures)
            /\ Answer(Response("create", 201, "", client[p].client_id,
                                  client[p].id, NoKey, << >>))
            /\ submitted' = (client[p].id :> data[p].pictures) @@ submitted
            /\ UNCHANGED aborted
    /\ pc' = [pc EXCEPT ![p] = "idle"]
    /\ data' = [data EXCEPT ![p] = NoData]
    /\ client' = [client EXCEPT ![p] = NoClient]
    /\ UNCHANGED <<nextClientId, objects, now, nextToken, pics, idx, issued, deleted>>

\* ------------------------------------------------------------------ get_clients
\* GET /api/clients: one read of the table and, per client, of its pictures,
\* all in the snapshot of the handler's transaction
get_clients(p, order) ==
    /\ pc[p] = "idle"
    /\ order \in Orderings(clients)
    /\ Answer(Response("list", 200, "", Absent, 0, NoKey,
                          [i \in 1..Len(order) |-> to_dict(order[i])]))
    /\ UNCHANGED <<db, objects, now, nextToken, pc, session, history>>

\* ------------------------------------------------------------------- get_client
get_client(p, client_id) ==
    /\ pc[p] = "idle"
    /\ IF ClientsByClientId(client_id) = {}
       THEN Answer(Response("get", 404, "Not Found", client_id, 0, NoKey, << >>))
       ELSE \E c \in ClientsByClientId(client_id) :
                Answer(Response("get", 200, "", client_id, c.id, NoKey, <<to_dict(c)>>))
    /\ UNCHANGED <<db, objects, now, nextToken, pc, session, history>>

\* ---------------------------------------------------------------- delete_client
\* delete_client with .first() in place of .first_or_404(): an unknown
\* identifier is answered like a deletion
delete_client_unguarded(p, client_id) ==
    /\ pc[p] = "idle"
    /\ IF ClientsByClientId(client_id) = {}
       THEN /\ Answer(Response("delete", 200, "", client_id, 0, NoKey, << >>))
            /\ UNCHANGED <<pc, session>>
       ELSE \E c \in ClientsByClientId(client_id) :
            /\ client' = [client EXCEPT ![p] = c]
            /\ pics' = [pics EXCEPT ![p] = ById(PicturesOf(c))]
            /\ idx' = [idx EXCEPT ![p] = 1]
            /\ data' = [data EXCEPT ![p] = [clientId |-> client_id, pictures |-> << >>]]
            /\ pc' = [pc EXCEPT ![p] = IF PicturesOf(c) = {} THEN "delete" ELSE "s3"]
            /\ UNCHANGED resp
    /\ UNCHANGED <<db, objects, now, nextToken, history>>

\* line 193 and the load of client.pictures at line 196
delete_client(p, client_id) ==
    /\ pc[p] = "idle"
    /\ IF ClientsByClientId(client_id) = {}
       THEN /\ Answer(Response("delete", 404, "Not Found", client_id, 0, NoKey, << >>))
            /\ UNCHANGED <<pc, session>>
       ELSE \E c \in ClientsByClientId(client_id) :
            /\ client' = [client EXCEPT ![p] = c]
            /\ pics' = [pics EXCEPT ![p] = ById(PicturesOf(c))]
            /\ idx' = [idx EXCEPT ![p] = 1]
            /\ data' = [data EXCEPT ![p] = [clientId |-> client_id, pictures |-> << >>]]
            /\ pc' = [pc EXCEPT ![p] = IF PicturesOf(c) = {} THEN "delete" ELSE "s3"]
            /\ UNCHANGED resp
    /\ UNCHANGED <<db, objects, now, nextToken, history>>

\* an exception leaves the handler: the session is rolled back and dropped
Abandon(p) ==
    /\ pc' = [pc EXCEPT ![p] = "idle"]
    /\ data' = [data EXCEPT ![p] = NoData]
    /\ client' = [client EXCEPT ![p] = NoClient]
    /\ pics' = [pics EXCEPT ![p] = << >>]
    /\ idx' = [idx EXCEPT ![p] = 0]

\* lines 196-200: one turn of the loop, s3_client.delete_object for one picture;
\* only ClientError is caught
delete_client_s3(p, outcome) ==
    /\ pc[p] = "s3"
    /\ IF outcome = "BotoCoreError"
       THEN /\ Answer(Response("delete", 500, outcome, data[p].clientId,
                                  client[p].id, NoKey, << >>))
            /\ Abandon(p)
            /\ UNCHANGED objects
       ELSE /\ objects' = IF outcome = "ok" THEN objects \ {pics[p][idx[p]].s3_key} ELSE objects
            /\ idx' = [idx EXCEPT ![p] = idx[p] + 1]
            /\ pc' = [pc EXCEPT ![p] = IF idx[p] = Len(pics[p]) THEN "delete" ELSE "s3"]
            /\ UNCHANGED <<resp, data, client, pics>>
    /\ UNCHANGED <<db, now, nextToken, history>>

\* a relationship without the delete cascade: the picture rows stay
PicturesNotCascaded(loaded) == pictures

\* rows removed by db.session.delete(client): the client row by primary key and,
\* through cascade='all, delete-orphan', the loaded pictures by primary key
ClientsAfterDelete(c) == {x \in clients : x.id # c.id}

PicturesAfterDelete(loaded) == {x \in pictures : \A i \in 1..Len(loaded) : loaded[i].id # x.id}

\* lines 202-204: db.session.delete(client); db.session.commit()
delete_client_commit(p) ==
    /\ pc[p] = "delete"
    /\ clients' = ClientsAfterDelete(client[p])
    /\ pictures' = PicturesAfterDelete(pics[p])
    /\ deleted' = deleted \cup {client[p]}
    /\ submitted' = [i \in DOMAIN submitted \ {client[p].id} |-> submitted[i]]
    /\ Answer(Response("delete", 200, "", data[p].clientId, client[p].id, NoKey, << >>))
    /\ Abandon(p)
    /\ UNCHANGED <<nextClientId, nextPictureId, objects, now, nextToken,
                   issued, aborted>>

\* -------------------------------------------------------------- specifications
\* INSERTs into clients still to come from the handlers that passed the check
Inserting == Cardinality({q \in Procs : pc[q] = "flush" /\ data[q].clientId # Absent})

MayCreate == nextClientId + Inserting <= MaxCreates

MayRegister == nextClientId + Inserting <= MaxListed

\* the registry: create, read and delete requests served concurrently
Next ==
    \/ \E p \in Procs, d \in CreateInputs : MayCreate /\ create_client(p, d)
    \/ \E p \in Procs : create_client_flush(p, now)
    \/ \E p \in Procs : create_client_commit(p)
    \/ \E p \in Procs, order \in Orderings(clients) : get_clients(p, order)
    \/ \E p \in Procs, c \in ClientIds : get_client(p, c)
    \/ \E p \in Procs, c \in ClientIds : delete_client(p, c)
    \/ \E p \in Procs, o \in S3Outcomes : delete_client_s3(p, o)
    \/ \E p \in Procs : delete_client_commit(p)
    \/ \E k \in PicKeys : Upload(k)

Spec == Init /\ [][Next]_vars

\* the upload grants: get_upload_url and the uploads made with the keys it returned
IssuedKeys == {issued[i] : i \in 1..Len(issued)}

NextGrant ==
    \/ \E p \in Procs, f \in FileNames \cup {Absent}, c \in ClientIds \cup {Absent}, o \in S3Outcomes :
           nextToken <= MaxGrants /\ get_upload_url(p, f, c, o)
    \/ \E k \in IssuedKeys : Upload(k)

SpecGrant == Init /\ [][NextGrant]_vars

\* the listing: clients without pictures registered at different seconds, listed
\* and deleted, the requests served one after the other by one handler
ListedIds == {"c1", "c2", "c3"}

NextList ==
    \/ \E p \in {1}, d \in [clientId : ListedIds, pictures : {<< >>}] :
           MayRegister /\ create_client(p, d)
    \/ \E p \in {1}, t \in now..MaxTime : create_client_flush(p, t)
    \/ \E p \in {1} : create_client_commit(p)
    \/ \E p \in {1}, order \in Orderings(clients) : get_clients(p, order)
    \/ \E p \in {1}, c \in ListedIds : delete_client(p, c)
    \/ \E p \in {1} : delete_client_commit(p)

SpecList == Init /\ [][NextList]_vars

\* ====================================================================== claims
\* the keys of a picture list, whatever their order: a and b hold the same keys
\* the same number of times
Count(seq, k) == Cardinality({i \in 1..Len(seq) : seq[i] = k})

SameKeys(a, b) ==
    /\ Len(a) = Len(b)
    /\ \A i \in 1..Len(a) : Count(a, a[i]) = Count(b, a[i])

\* C1: no two stored clients share an external client identifier, under every
\* interleaving of create and delete calls, racing creators included.
C1_UniqueClientId ==
    \A a, b \in clients : a.client_id = b.client_id => a = b

\* two creators raced for one identifier; one committed, the other was rejected
\* by the unique index
C1_RaceRejected ==
    /\ resp.op = "create" /\ resp.status = 500 /\ resp.error = Duplicate
    /\ Cardinality(ClientsByClientId(resp.arg)) = 1

\* C2: a create call whose identifier is stored when the call checks it is
\* answered 409 and writes nothing: it never goes on to insert, and the step
\* that answers 409 leaves the tables, the counters and the bucket as they were.
C2_DuplicateRejected ==
    [][/\ \A p \in Procs :
              (pc[p] = "idle" /\ pc'[p] = "flush") => ClientsByClientId(data'[p].clientId) = {}
       /\ (resp' # resp /\ resp'.op = "create" /\ pc' = pc) =>
              /\ resp'.status = 409
              /\ ClientsByClientId(resp'.arg) # {}
              /\ UNCHANGED <<clients, pictures, nextClientId, nextPictureId, objects>>]_vars

\* a create reusing a stored identifier was refused with 409
C2_Refused ==
    /\ resp.op = "create" /\ resp.status = 409
    /\ ClientsByClientId(resp.arg) # {}

\* C3: a get_client answered 200 carries exactly the picture keys the client's
\* create call submitted: same count, same keys.
C3_PicturesMatch ==
    (resp.op = "get" /\ resp.status = 200) =>
        /\ resp.id \in DOMAIN submitted
        /\ SameKeys(resp.body[1].pictures, submitted[resp.id])

\* a client created with two descriptors was fetched
C3_FetchedWithPictures ==
    /\ resp.op = "get" /\ resp.status = 200
    /\ Len(resp.body[1].pictures) >= 2
    /\ Len(submitted[resp.id]) >= 2

\* C4: once delete_client has answered 200 for a client row, that row and every
\* picture row referencing its surrogate id are gone for good, and a get_client
\* answered 200 never returns a deleted row (only a client created again).
C4_DeletedStaysGone ==
    /\ \A d \in deleted :
           /\ \A c \in clients : c.id # d.id
           /\ \A x \in pictures : x.client_id # d.id
    /\ (resp.op = "get" /\ resp.status = 200) => \A d \in deleted : resp.id # d.id
    /\ (resp.op = "get" /\ ClientsByClientId(resp.arg) = {}) => resp.status = 404

\* a client that had pictures was deleted, and a later get_client got 404
C4_GoneAfterDelete ==
    /\ nextPictureId > 1
    /\ pictures = {}
    /\ resp.op = "get" /\ resp.status = 404
    /\ \E d \in deleted : d.client_id = resp.arg

\* C5: delete_client on a client it found answers 200 and has removed the
\* client's rows, whatever the bucket answered to the object deletions.
C5_DeleteAlwaysSucceeds ==
    (resp.op = "delete" /\ resp.id # 0) =>
        /\ resp.status = 200
        /\ \A c \in clients : c.id # resp.id
        /\ \A x \in pictures : x.client_id # resp.id

\* C6: a client row is observable exactly with the picture rows of its create
\* call: the committed tables never hold a client without all its submitted
\* pictures, a picture without its client, a row flushed but not committed, or a
\* row of a create call that failed after its flush; the same holds of what
\* get_client and get_clients return.
C6_AtomicCreate ==
    /\ \A c \in clients :
           /\ c.id \in DOMAIN submitted
           /\ SameKeys(to_dict(c).pictures, submitted[c.id])
    /\ \A x \in pictures : \E c \in clients : c.id = x.client_id
    /\ \A p \in Procs : pc[p] = "commit" =>
           /\ \A c \in clients : c.id # client[p].id
           /\ \A x \in pictures : x.client_id # client[p].id
    /\ \A s \in aborted :
           /\ \A c \in clients : c.id # s
           /\ \A x \in pictures : x.client_id # s
    /\ (resp.op \in {"get", "list"} /\ resp.status = 200) =>
           \A i \in 1..Len(resp.body) :
               /\ resp.body[i].id \notin aborted
               /\ resp.body[i].id \in DOMAIN submitted
               /\ SameKeys(resp.body[i].pictures, submitted[resp.body[i].id])

\* after one create call failed past its flush, a reader asked for a client
\* whose row, with pictures to come, was flushed and not yet committed
C6_ReadDuringCreate ==
    /\ aborted # {}
    /\ \E p \in Procs :
           /\ pc[p] = "commit"
           /\ data[p].pictures # << >>
           /\ resp.op = "get" /\ resp.arg = client[p].client_id /\ resp.status = 404

\* C7: get_clients returns every stored client exactly once, no client before
\* one with a later creation timestamp.
C7_ListedNewestFirst ==
    resp.op = "list" =>
        /\ Len(resp.body) = Cardinality(clients)
        /\ \A c \in clients : \E i \in 1..Len(resp.body) : resp.body[i].id = c.id
        /\ \A i, j \in 1..Len(resp.body) : i < j => resp.body[i].created_at >= resp.body[j].created_at

\* three clients created at t1 < t2 < t3 were listed as [t3, t2, t1]
C7_ThreeListed ==
    /\ resp.op = "list" /\ Len(resp.body) = 3
    /\ resp.body[1].created_at > resp.body[2].created_at
    /\ resp.body[2].created_at > resp.body[3].created_at

\* C8: get_client and delete_client of an identifier no stored client has are
\* answered 404 and change nothing: no row is removed, no object deletion is
\* attempted, no deletion goes on.
C8_NotFound ==
    [][/\ \A p \in Procs :
              (pc[p] = "idle" /\ pc'[p] \in {"s3", "delete"}) =>
                  ClientsByClientId(data'[p].clientId) # {}
       /\ (resp' # resp /\ resp'.op = "get") =>
              (resp'.status = 404 <=> ClientsByClientId(resp'.arg) = {})
       /\ (resp' # resp /\ resp'.op = "delete" /\ pc' = pc) =>
              /\ resp'.status = 404
              /\ ClientsByClientId(resp'.arg) = {}
       /\ (resp' # resp /\ resp'.op \in {"get", "delete"} /\ resp'.status = 404) =>
              UNCHANGED <<clients, pictures, objects, pc>>]_vars

\* a delete_client of an unknown identifier was answered 404 while other
\* clients, pictures and objects were stored
C8_DeleteUnknown ==
    /\ resp.op = "delete" /\ resp.status = 404
    /\ clients # {} /\ pictures # {} /\ objects # {}

\* C9: a step of delete_client(c) leaves every other stored client's row, its
\* picture rows and the objects backing those pictures as they were.
C9_OthersUntouched ==
    [][\A p \in Procs :
           (pc[p] \in {"s3", "delete"} /\ (pc'[p] # pc[p] \/ idx'[p] # idx[p])) =>
               \A c \in clients : c.id # client[p].id =>
                   /\ c \in clients'
                   /\ PicturesOf(c) \subseteq pictures'
                   /\ \A x \in PicturesOf(c) : x.s3_key \in objects => x.s3_key \in objects']_vars

\* C10: every key get_upload_url returns is clients/{clientId}/{token}_{fileName}
\* for the call's own clientId and fileName (the defaults when they are
\* missing), differs from every key returned before, and the call, answered 200
\* or 500, leaves the bucket and the tables as they were.
C10_GrantKeys ==
    [][nextToken' # nextToken =>
          /\ UNCHANGED <<clients, pictures, objects>>
          /\ resp'.status \in {200, 500}
          /\ resp'.status = 200 =>
                /\ Len(resp'.key) = 6
                /\ resp'.key[1] = "clients/"
                /\ resp'.key[2] = (IF resp'.arg = Absent THEN "unknown" ELSE resp'.arg)
                /\ resp'.key[3] = "/"
                /\ resp'.key[5] = "_"
                /\ resp'.key[6] = (IF resp'.body[1] = Absent THEN "file" ELSE resp'.body[1])
                /\ resp'.key \notin IssuedKeys
                /\ issued' = Append(issued, resp'.key)]_vars

\* two calls with identical inputs were answered with two keys
C10_TwoGrantsSameInputs ==
    /\ Len(issued) = 2
    /\ issued[1][2] = issued[2][2] /\ issued[1][6] = issued[2][6]
    /\ issued[1] # issued[2]

====
